---------------------------- MODULE Spec2Model ----------------------------
(***************************************************************************)
(* EPIC Coder: the custom lexers of epiccoder/lexer.py (PPSCustomLexer and *)
(* TextCustomLexer) attached to one QsciScintilla editor buffer, the       *)
(* PyCustomLexer of the earlier revision, the SearchWorker thread of       *)
(* epiccoder/fuzzy_searcher.py, the tabs of epiccoder/mainwindow.py and    *)
(* normalize_line_endings of epiccoder/textutils.py.                       *)
(*                                                                         *)
(* A buffer text is a TLA+ string; a character is a string of length 1.    *)
(* The host's style buffer holds one style id per UTF-8 byte of the text.  *)
(***************************************************************************)
EXTENDS Integers, Sequences, FiniteSets, TLC

VARIABLES text,    \* editor.text(): the characters of the buffer
          lexer,   \* which lexer CustomEditor attached: "pps" or "text"
          styled,  \* the host's style buffer: one style id per byte
          call,    \* what the last lexer call did (its inputs and its setStyling runs)
          worker,  \* the SearchWorker object and its thread
          emitted, \* the lists SearchWorker.finished has emitted, in order
          tabs,    \* MainWindow.tab_view: the tabs in order, each with its editor
          current, \* tab_view.currentIndex() + 1 (0 when there is no tab)
          menu,    \* whether the Duplicate and Delete menu actions are enabled
          set_new_tab_busy, \* MainWindow.set_new_tab_busy: "None", "True" or "False"
          int_gen, \* the next integer the module-level generator int_gen yields
          disk,    \* the files that exist, each with what reading it gives
          issued,  \* the paths next_new_file_path has returned, in order
          op,      \* the last handler of the window that ran, how it ended, and
                   \* how many handlers have run
          pc,      \* "warning_box" while set_new_tab waits in its warning box
          normalized \* the last result of normalize_line_endings, if any

window == <<tabs, current, menu, set_new_tab_busy, int_gen, disk, issued, op, pc>>

vars == <<text, lexer, styled, call, worker, emitted, window, normalized>>

---------------------------------------------------------------------------
(* Bounds of the explored inputs.                                          *)

\* A buffer of the styler runs is a concatenation of at most MaxPieces pieces.
MaxPieces == 3

\* A string given to the scanner alone has at most MaxScanLen characters.
MaxScanLen == 4

---------------------------------------------------------------------------
(* Characters.                                                             *)

\* U+00E9 (e with acute accent), a word character of two UTF-8 bytes,
\* written with an ASCII stand-in to keep this module ASCII.
E_ACUTE == "~"

\* U+00BD (vulgar fraction one half), a word character of two UTF-8 bytes
\* that is numeric and not a decimal digit, written with an ASCII stand-in.
ONE_HALF == "^"

LineTerminators == {"\n", "\r"}

\* str.isspace() on one character
IsSpace(c) == c \in {" ", "\t", "\n", "\r"}

Digits == {"0", "1", "2", "3", "4", "5", "6", "7", "8", "9"}

LowerLetters == {"a", "b", "c", "d", "e", "f", "g", "h", "i", "j", "k", "l", "m",
                 "n", "o", "p", "q", "r", "s", "t", "u", "v", "w", "x", "y", "z"}

UpperLetters == {"A", "B", "C", "D", "E", "F", "G", "H", "I", "J", "K", "L", "M",
                 "N", "O", "P", "Q", "R", "S", "T", "U", "V", "W", "X", "Y", "Z"}

\* the regular expression class \w on one character
IsWord(c) == c \in LowerLetters \cup UpperLetters \cup Digits \cup {"_", E_ACUTE, ONE_HALF}

\* the i-th character of s (1-based)
Char(s, i) == SubSeq(s, i, i)

\* len(bytearray(c, "utf-8")) of one character
CharBytes(c) == IF c \in {E_ACUTE, ONE_HALF} THEN 2 ELSE 1

RECURSIVE Utf8Len(_)
\* len(bytearray(s, "utf-8"))
Utf8Len(s) ==
    IF s = "" THEN 0 ELSE CharBytes(Char(s, 1)) + Utf8Len(SubSeq(s, 2, Len(s)))

UpperString == "ABCDEFGHIJKLMNOPQRSTUVWXYZ"
LowerString == "abcdefghijklmnopqrstuvwxyz"

\* str.lower() on one character
LowerChar(c) ==
    IF c \in UpperLetters
    THEN LET i == CHOOSE k \in 1..Len(UpperString) : Char(UpperString, k) = c
         IN  Char(LowerString, i)
    ELSE c

RECURSIVE Lower(_)
\* str.lower()
Lower(s) ==
    IF s = "" THEN "" ELSE LowerChar(Char(s, 1)) \o Lower(SubSeq(s, 2, Len(s)))

\* str.isnumeric(): non-empty and every character has a Unicode numeric
\* value, which the decimal digits and characters such as U+00BD have.
IsNumeric(s) == s # "" /\ \A k \in 1..Len(s) : Char(s, k) \in Digits \cup {ONE_HALF}

\* sub in s, for a one-character sub
Contains(s, c) == \E k \in 1..Len(s) : Char(s, k) = c

\* s.startswith(p)
StartsWith(s, p) == Len(s) >= Len(p) /\ SubSeq(s, 1, Len(p)) = p

\* Faulty variant (mutation test): the slice takes the character at b too.
Slice_through_end(s, a, b) ==
    LET hi == IF b + 1 < Len(s) THEN b + 1 ELSE Len(s)
    IN  IF a >= hi THEN "" ELSE SubSeq(s, a + 1, hi)

\* Python's s[a:b] for 0 <= a <= b: indexes are clamped to the length
Slice(s, a, b) ==
    LET hi == IF b < Len(s) THEN b ELSE Len(s)
    IN  IF a >= hi THEN "" ELSE SubSeq(s, a + 1, hi)

---------------------------------------------------------------------------
(* The token scanner: re.compile(r"[*]|\/\/+|\s+|\w+|\W|\s").findall(text) *)

\* Faulty variant (mutation test): the pattern without its \W alternative.
token_pattern_without_nonword == <<"[*]", "//+", "\\s+", "\\w+", "\\s">>

\* The alternatives of token_pattern, in the order the pattern tries them.
token_pattern == <<"[*]", "//+", "\\s+", "\\w+", "\\W", "\\s">>

RECURSIVE RunLen(_, _, _)
\* The number of consecutive characters of s from index i on that are of
\* class cls ("space", "word" or "slash"): a greedy + repetition.
RunLen(cls, s, i) ==
    IF i > Len(s) THEN 0
    ELSE LET c  == Char(s, i)
             ok == CASE cls = "space" -> IsSpace(c)
                     [] cls = "word"  -> IsWord(c)
                     [] OTHER         -> c = "/"
         IN  IF ok THEN 1 + RunLen(cls, s, i + 1) ELSE 0

\* The length of the match of one alternative at index i of s, 0 for no match.
AltLen(alt, s, i) ==
    CASE alt = "[*]"   -> IF Char(s, i) = "*" THEN 1 ELSE 0
      [] alt = "[*]/"  -> IF i < Len(s) /\ SubSeq(s, i, i + 1) = "*/" THEN 2 ELSE 0
      [] alt = "/[*]"  -> IF i < Len(s) /\ SubSeq(s, i, i + 1) = "/*" THEN 2 ELSE 0
      [] alt = "//+"   -> IF RunLen("slash", s, i) >= 2 THEN RunLen("slash", s, i) ELSE 0
      [] alt = "\\s+"  -> RunLen("space", s, i)
      [] alt = "\\w+"  -> RunLen("word", s, i)
      [] alt = "\\W"   -> IF IsWord(Char(s, i)) THEN 0 ELSE 1
      [] alt = "\\s"   -> IF IsSpace(Char(s, i)) THEN 1 ELSE 0
      [] OTHER         -> 0

\* The length of the pattern's match at index i: the first alternative of the
\* pattern that matches decides; 0 when none does.
MatchLen(pattern, s, i) ==
    LET hits == {k \in 1..Len(pattern) : AltLen(pattern[k], s, i) > 0}
    IN  IF hits = {} THEN 0
        ELSE AltLen(pattern[CHOOSE k \in hits : \A m \in hits : k <= m], s, i)

RECURSIVE FindAll(_, _, _)
\* pattern.findall(s) from index i on: the non-overlapping matches, left to
\* right; a character at which nothing matches is skipped.
FindAll(pattern, s, i) ==
    IF i > Len(s) THEN <<>>
    ELSE LET n == MatchLen(pattern, s, i)
         IN  IF n = 0 THEN FindAll(pattern, s, i + 1)
             ELSE <<SubSeq(s, i, i + n - 1)>> \o FindAll(pattern, s, i + n)

\* get_tokens(text): the pairs (token, byte length of the token)
get_tokens(s) ==
    LET found == FindAll(token_pattern, s, 1)
    IN  [k \in 1..Len(found) |-> [tok |-> found[k], len |-> Utf8Len(found[k])]]

\* Faulty variant (mutation test): the token texts are not lowercased.
token_list_not_lowered(s) == get_tokens(s)

\* token_list of styleText: the same pairs with the token text lowercased
token_list(s) ==
    LET raw == get_tokens(s)
    IN  [k \in 1..Len(raw) |-> [tok |-> Lower(raw[k].tok), len |-> raw[k].len]]

---------------------------------------------------------------------------
(* PPSCustomLexer: keyword tables and style ids.                           *)

RULE_SECTIONS == {"if", "then"}

COMPARISONS == {"not", "equal", "greater", "least", "different", "less-than",
                "less_than", "greater-than", "greater_than", "equal-to", "equal_to"}

DIRECTIVES == {"if-only-one", "if_only_one", "use-only-one", "use_only_one",
               "randomly-choose-one", "randomly_choose_one", "unique"}

ARCHITECTURES == {"goal", "step", "tag", "visual", "auditory", "tactile", "more",
                  "initial-memory-contents", "initial_memory_contents", "parameters",
                  "named-location", "named_location", "motor", "ocular", "manual",
                  "vocal"}

KEYWORDS == {"add", "adddb", "del", "delete", "log", "define", "set-mode", "set_mode",
             "send-to-motor", "send_to_motor", "delay-countdown", "delay_countdown",
             "increment", "send-to-temporal", "send_to_temporal"}

DEFAULT == 0
RULE_SECTION == 1
COMPARISON == 2
DIRECTIVE == 3
ARCHITECTURE == 4
COMMENT == 5
NUMBER == 6
RULE_NAME == 7
VARIABLE_ == 8
KEYWORD == 9
PARENS == 10

\* TextCustomLexer's two style ids
TEXT_DEFAULT == 0
TEXT_NUMBER == 1

---------------------------------------------------------------------------
(* PPSCustomLexer.styleText.  setStyling(length, style) is a run           *)
(* <<length, style>>; an iteration of the loop is a record                 *)
(*   tok, len     the current token (lowercased text, byte length)         *)
(*   flag         string_flag when the iteration starts                    *)
(*   runs         the runs the iteration emits                             *)
(*   flag_after   string_flag when the iteration ends                      *)
(*   raised       the iteration raised IndexError                          *)

\* string_flag before the loop: the style of byte start - 1 is read when
\* start > 0, and the flag is assigned False whatever that style is.
initial_string_flag(start, previous_style_nr) ==
    IF start > 0
    THEN IF previous_style_nr = COMMENT THEN FALSE ELSE FALSE
    ELSE FALSE

\* Faulty variant (mutation test): the comment ends at any token that starts with white space.
comment_ends_at_space(tok) == IsSpace(Char(tok, 1))

\* Faulty variant (mutation test): the comment ends only at a token whose first character is a line
\* terminator (the test of the earlier revision of the lexer).
comment_ends_leading_only(tok) == Char(tok, 1) \in LineTerminators

\* the test that ends a comment, made on a token styled in the comment state
comment_ends(tok) ==
    Char(tok, Len(tok)) \in LineTerminators \/ Char(tok, 1) \in LineTerminators

\* the test that starts a comment
comment_starts(tok) == StartsWith(tok, ";") \/ StartsWith(tok, "//")

\* Faulty variant (mutation test): the rule-name rule takes tokens of 2 characters too.
rule_name_test_from_2(tok, last_token, peek) ==
    IF Len(tok) >= 2 /\ last_token # <<>> /\ last_token[1] = "("
    THEN IF peek = "" THEN "IndexError"
         ELSE IF Char(peek, 1) \in LineTerminators THEN "True" ELSE "False"
    ELSE "False"

\* The condition of the rule-name rule, on the previous token (last_token:
\* <<>> for None, else <<text>>) and the text of the next one (peek: the empty
\* string when peek_tok finds no token).  Python evaluates the conjuncts left
\* to right: peek[0][0] is reached when the first three hold, and indexing
\* the empty string raises IndexError.
rule_name_test(tok, last_token, peek) ==
    IF Len(tok) > 2 /\ last_token # <<>> /\ last_token[1] = "("
    THEN IF peek = "" THEN "IndexError"
         ELSE IF Char(peek, 1) \in LineTerminators THEN "True" ELSE "False"
    ELSE "False"

\* The else branch of the loop: the style set by the rules that look at the
\* neighbours of the token, or raised when the rule-name test raises.
contextual_rules(tok, last_token, peek) ==
    LET rule_name == rule_name_test(tok, last_token, peek)
    IN  IF rule_name = "IndexError" THEN [raised |-> TRUE, style |-> DEFAULT]
        ELSE IF rule_name = "True" THEN [raised |-> FALSE, style |-> RULE_NAME]
        ELSE IF tok = "?" /\ last_token # <<>> /\ last_token[1] \in {"?", " ", "("}
             THEN [raised |-> FALSE, style |-> VARIABLE_]
        ELSE IF ~Contains(tok, "?") /\ last_token # <<>> /\ last_token[1] = "?"
             THEN [raised |-> FALSE, style |-> VARIABLE_]
        ELSE [raised |-> FALSE, style |-> DEFAULT]

\* One iteration of the loop on the token t = [tok, len].
pps_iteration(t, string_flag, last_token, peek) ==
    LET tok == t.tok
        it(runs, after, raised) ==
            [tok |-> tok, len |-> t.len, flag |-> string_flag, runs |-> runs,
             flag_after |-> after, raised |-> raised]
    IN  IF string_flag
        THEN it(<<<<t.len, COMMENT>>>>, IF comment_ends(tok) THEN FALSE ELSE TRUE, FALSE)
        ELSE IF tok \in RULE_SECTIONS THEN it(<<<<t.len, RULE_SECTION>>>>, FALSE, FALSE)
        ELSE IF tok \in COMPARISONS   THEN it(<<<<t.len, COMPARISON>>>>, FALSE, FALSE)
        ELSE IF tok \in DIRECTIVES    THEN it(<<<<t.len, DIRECTIVE>>>>, FALSE, FALSE)
        ELSE IF tok \in ARCHITECTURES THEN it(<<<<t.len, ARCHITECTURE>>>>, FALSE, FALSE)
        ELSE IF tok \in KEYWORDS      THEN it(<<<<t.len, KEYWORD>>>>, FALSE, FALSE)
        ELSE IF IsNumeric(tok)        THEN it(<<<<t.len, NUMBER>>>>, FALSE, FALSE)
        ELSE IF tok \in {"(", ")"}    THEN it(<<<<t.len, PARENS>>>>, FALSE, FALSE)
        ELSE IF comment_starts(tok)   THEN it(<<<<t.len, COMMENT>>>>, TRUE, FALSE)
        ELSE LET r == contextual_rules(tok, last_token, peek)
             IN  IF r.raised THEN it(<<>>, FALSE, TRUE)
                 ELSE it(<<<<t.len, r.style>>>>, FALSE, FALSE)

RECURSIVE pps_loop(_, _, _, _)
\* The while loop from token i of toks on: the iterations made, the last of
\* them the one that raised when one did.
pps_loop(toks, i, string_flag, last_token) ==
    IF i > Len(toks) THEN <<>>
    ELSE LET peek == IF i + 1 <= Len(toks) THEN toks[i + 1].tok ELSE ""
             step == pps_iteration(toks[i], string_flag, last_token, peek)
         IN  IF step.raised THEN <<step>>
             ELSE <<step>> \o pps_loop(toks, i + 1, step.flag_after, <<toks[i].tok>>)

\* TextCustomLexer.styleText's loop: NUMBER for a numeric token, else DEFAULT
text_loop(toks) ==
    [k \in 1..Len(toks) |->
        [tok |-> toks[k].tok, len |-> toks[k].len, flag |-> FALSE,
         runs |-> <<<<toks[k].len, IF IsNumeric(toks[k].tok) THEN TEXT_NUMBER
                                                            ELSE TEXT_DEFAULT>>>>,
         flag_after |-> FALSE, raised |-> FALSE]]

---------------------------------------------------------------------------
(* description(style) of the two lexers.                                   *)

\* Faulty variant (mutation test): the branch of PARENS is missing.
pps_description_without_parens(style) ==
    CASE style = DEFAULT      -> "DEFAULT"
      [] style = RULE_SECTION -> "RULE_SECTION"
      [] style = COMPARISON   -> "COMPARISON"
      [] style = DIRECTIVE    -> "DIRECTIVE"
      [] style = ARCHITECTURE -> "ARCHITECTURE"
      [] style = COMMENT      -> "COMMENT"
      [] style = NUMBER       -> "NUMBER"
      [] style = RULE_NAME    -> "RULE_NAME"
      [] style = VARIABLE_    -> "VARIABLE"
      [] style = KEYWORD      -> "KEYWORD"
      [] OTHER                -> ""

\* PPSCustomLexer.description(style): the if / elif chain, "" in its else
pps_description(style) ==
    CASE style = DEFAULT      -> "DEFAULT"
      [] style = RULE_SECTION -> "RULE_SECTION"
      [] style = COMPARISON   -> "COMPARISON"
      [] style = DIRECTIVE    -> "DIRECTIVE"
      [] style = ARCHITECTURE -> "ARCHITECTURE"
      [] style = COMMENT      -> "COMMENT"
      [] style = NUMBER       -> "NUMBER"
      [] style = RULE_NAME    -> "RULE_NAME"
      [] style = VARIABLE_    -> "VARIABLE"
      [] style = KEYWORD      -> "KEYWORD"
      [] style = PARENS       -> "PARENS"
      [] OTHER                -> ""

\* TextCustomLexer.description(style)
text_description(style) ==
    IF style = TEXT_DEFAULT THEN "DEFAULT"
    ELSE IF style = TEXT_NUMBER THEN "NUMBER"
    ELSE ""

---------------------------------------------------------------------------
(* The editor buffer, its style buffer and the lexer calls.                *)

RECURSIVE AllRuns(_)
\* every run the iterations emitted, in order
AllRuns(its) ==
    IF its = <<>> THEN <<>> ELSE Head(its).runs \o AllRuns(Tail(its))

RECURSIVE StyleBytes(_)
\* the style of each byte the runs cover, in order
StyleBytes(runs) ==
    IF runs = <<>> THEN <<>>
    ELSE [k \in 1..Head(runs)[1] |-> Head(runs)[2]] \o StyleBytes(Tail(runs))

\* startStyling(start) followed by the setStyling calls of runs: byte offset
\* start + k - 1 takes the style of the k-th styled byte.
set_styling(buffer, start, runs) ==
    LET painted == StyleBytes(runs)
    IN  [k \in 1..Len(buffer) |->
            IF k > start /\ k <= start + Len(painted) THEN painted[k - start]
            ELSE buffer[k]]

\* SCI_GETSTYLEAT(pos) for a byte offset pos of the buffer
SCI_GETSTYLEAT(pos) == styled[pos + 1]

\* SearchWorker.__init__: no pattern, no thread running.  search_text and
\* the value the ignore_case callable returns are <<>> for None.  run holds
\* the locals of search(); updates, started, returned and pattern count
\* the calls and runs and remember the pattern of the update call that
\* started the run.
NewWorker ==
    [search_text |-> <<>>, ignore_case |-> <<>>,
     running |-> FALSE, pc |-> "idle",
     run |-> [ignore_case |-> FALSE, next |-> 1, items |-> <<>>, pattern |-> <<>>],
     updates |-> 0, started |-> 0, returned |-> 0]

NoCall ==
    [op |-> "none", start |-> 0, end |-> 0, prev_style |-> <<>>, text |-> "",
     tokens |-> <<>>, its |-> <<>>, raised |-> FALSE, style |-> 0, name |-> ""]

---------------------------------------------------------------------------
(* Paths, the file system and the main window after construction.          *)

\* A pathlib.Path: its parent folder, and its name split in stem and suffix.
Path(parent, stem, suffix) == [parent |-> parent, stem |-> stem, suffix |-> suffix]

\* Path.name
path_name(p) == p.stem \o p.suffix

\* str(path)
path_str(p) == p.parent \o "/" \o path_name(p)

\* self.model.rootPath(): the folder shown in the tree view
rootPath == "/w"

\* The files on disk when the program starts: two rule files of the same
\* name in two folders, a file with a NUL byte, a text file that is not
\* UTF-8, a file without read permission, and the files untitled1.txt ..
\* untitled9.txt saved in earlier sessions.
InitialDisk ==
    LET kind(p) == IF p = Path(rootPath, "image", ".png") THEN "binary"
                   ELSE IF p = Path(rootPath, "latin1", ".txt") THEN "undecodable"
                   ELSE IF p = Path(rootPath, "locked", ".txt") THEN "unreadable"
                   ELSE "text"
        files == {Path(rootPath, "a", ".prs"), Path("/x", "a", ".prs"),
                  Path(rootPath, "image", ".png"), Path(rootPath, "latin1", ".txt"),
                  Path(rootPath, "locked", ".txt")}
                 \cup {Path(rootPath, "untitled" \o ToString(n), ".txt") : n \in 1..9}
    IN  [p \in files |-> kind(p)]

\* MainWindow.__init__ and set_up_menu: no tab, both menu actions disabled,
\* the busy flag None; the generator int_gen starts at 0.
NewMainWindow ==
    /\ tabs = <<>> /\ current = 0
    /\ menu = [dupe_file |-> FALSE, delete_file |-> FALSE]
    /\ set_new_tab_busy = "None"
    /\ int_gen = 0
    /\ disk = InitialDisk
    /\ issued = <<>>
    /\ op = [name |-> "__init__", exit |-> "", nr |-> 0]
    /\ pc = "idle"

\* The pieces the explored buffers are made of.
Pieces == {";", "/", "\n", " ", "(", "?", "if", "is", "abc", "1", E_ACUTE}

RECURSIVE Concats(_, _)
\* every concatenation of at most n members of P
Concats(P, n) ==
    IF n = 0 THEN {""}
    ELSE Concats(P, n - 1) \cup {t \o p : t \in Concats(P, n - 1), p \in P}

\* Fragments of rule files.
Fragments ==
    {"(rule1\n  if (?x is Foo)", "then (add (?x ready))\n)", "// a comment\nkeyword_tok",
     "; IF 12 ( ? \n (a", "; a \nif", "not unique goal", "12345 12a45", "a*b///c/d",
     "(Visual\r\nTHEN", "(abc \n(ab\n", "1^ ^ 12;//if", "(^^^\n"}

\* The entries of the five keyword tables, each a buffer of its own.
TableEntries == RULE_SECTIONS \cup COMPARISONS \cup DIRECTIVES \cup ARCHITECTURES \cup KEYWORDS

Buffers == Concats(Pieces, MaxPieces) \cup Fragments \cup TableEntries

\* CustomEditor attaches PPSCustomLexer to a .prs file and TextCustomLexer to
\* a file of no known suffix; the style buffer of a loaded text is all zero.
Init ==
    /\ text \in Buffers
    /\ lexer \in {"pps", "text"}
    /\ styled = [k \in 1..Utf8Len(text) |-> 0]
    /\ call = NoCall
    /\ worker = NewWorker /\ emitted = <<>>
    /\ NewMainWindow /\ normalized = <<>>

\* Faulty variant (mutation test): the last token of the previous call is
\* kept in the lexer and seeds the next call.
initial_last_token_of_previous_call ==
    IF call.op = "styleText" /\ call.tokens # <<>>
    THEN <<Lower(call.tokens[Len(call.tokens)].tok)>>
    ELSE <<>>

\* last_token at the start of a styleText call: the local is set to None in
\* every call; the instance field last_tok is never read.
initial_last_token == <<>>

\* PPSCustomLexer.styleText(start, end), for any byte range of the buffer
PPSStyleText ==
    /\ lexer = "pps"
    /\ \E start \in 0..Len(styled) : \E end \in start..Len(styled) :
        LET slice == Slice(text, start, end)
            toks  == token_list(slice)
            prev  == IF start > 0 THEN <<SCI_GETSTYLEAT(start - 1)>> ELSE <<>>
            flag  == initial_string_flag(start, IF start > 0 THEN prev[1] ELSE DEFAULT)
            its   == pps_loop(toks, 1, flag, initial_last_token)
        IN  /\ call' = [op |-> "styleText", start |-> start, end |-> end,
                        prev_style |-> prev, text |-> slice,
                        tokens |-> get_tokens(slice), its |-> its,
                        raised |-> (its # <<>> /\ its[Len(its)].raised),
                        style |-> 0, name |-> ""]
            /\ styled' = set_styling(styled, start, AllRuns(its))
    /\ UNCHANGED <<text, lexer, worker, emitted>>
    /\ UNCHANGED <<window, normalized>>

\* TextCustomLexer.styleText(start, end), for any byte range of the buffer
TextStyleText ==
    /\ lexer = "text"
    /\ \E start \in 0..Len(styled) : \E end \in start..Len(styled) :
        LET slice == Slice(text, start, end)
            its   == text_loop(token_list(slice))
        IN  /\ call' = [op |-> "styleText", start |-> start, end |-> end,
                        prev_style |-> <<>>, text |-> slice,
                        tokens |-> get_tokens(slice), its |-> its, raised |-> FALSE,
                        style |-> 0, name |-> ""]
            /\ styled' = set_styling(styled, start, AllRuns(its))
    /\ UNCHANGED <<text, lexer, worker, emitted>>
    /\ UNCHANGED <<window, normalized>>

\* The first styling request of the host on a loaded buffer.
FirstPPSStyleText == call.op = "none" /\ PPSStyleText

FirstTextStyleText == call.op = "none" /\ TextStyleText

\* One styling request on each loaded buffer.
Next == FirstPPSStyleText \/ FirstTextStyleText

Spec == Init /\ [][Next]_vars

---------------------------------------------------------------------------
(* Successive styling requests on one buffer: each call reads the styles   *)
(* the earlier calls committed.                                            *)

MaxRestylePieces == 2

RestylePieces == {";", "\n", "(", "?", "abc", E_ACUTE}

RestyleFragments == {"~;;", "(abc\n", "; \n?"}

InitRestyle ==
    /\ text \in Concats(RestylePieces, MaxRestylePieces) \cup RestyleFragments
    /\ lexer \in {"pps", "text"}
    /\ styled = [k \in 1..Utf8Len(text) |-> 0]
    /\ call = NoCall
    /\ worker = NewWorker /\ emitted = <<>>
    /\ NewMainWindow /\ normalized = <<>>

\* The style ids the host asks the description of: the ids of
\* PPSCustomLexer and one integer on either side of them.
StyleProbes == (DEFAULT - 1)..(PARENS + 1)

\* description(style) of the attached lexer
Description ==
    /\ \E style \in StyleProbes :
        call' = [NoCall EXCEPT !.op = "description", !.style = style,
                               !.name = IF lexer = "pps" THEN pps_description(style)
                                        ELSE text_description(style)]
    /\ UNCHANGED <<text, lexer, styled, worker, emitted>>
    /\ UNCHANGED <<window, normalized>>

NextRestyle == PPSStyleText \/ TextStyleText \/ Description

SpecRestyle == InitRestyle /\ [][NextRestyle]_vars

---------------------------------------------------------------------------
(* The scanner alone, on every string of at most MaxScanLen characters.    *)

ScanAlphabet == {"*", "/", " ", "\n", "a", "1", "_", ";", "(", E_ACUTE}

RECURSIVE Strings(_)
Strings(n) ==
    IF n = 0 THEN {""}
    ELSE Strings(n - 1) \cup {t \o c : t \in Strings(n - 1), c \in ScanAlphabet}

InitScan ==
    /\ text \in Strings(MaxScanLen)
    /\ lexer \in {"pps", "text"}
    /\ styled = [k \in 1..Utf8Len(text) |-> 0]
    /\ call = NoCall
    /\ worker = NewWorker /\ emitted = <<>>
    /\ NewMainWindow /\ normalized = <<>>

\* get_tokens(text) of either lexer, on the whole buffer text
GetTokens ==
    /\ call.op = "none"
    /\ call' = [NoCall EXCEPT !.op = "get_tokens", !.text = text,
                              !.tokens = get_tokens(text)]
    /\ UNCHANGED <<text, lexer, styled, worker, emitted>>
    /\ UNCHANGED <<window, normalized>>

NextScan == GetTokens

SpecScan == InitScan /\ [][NextScan]_vars

---------------------------------------------------------------------------
(* PyCustomLexer of the earlier revision (src/main/python/lexer.py).       *)

\* The alternatives of re.compile(r"[*]\/|\/[*]|\s+|\w+|\W").
py_token_pattern == <<"[*]/", "/[*]", "\\s+", "\\w+", "\\W">>

\* PyCustomLexer.get_tokens(text): the pairs (token, byte length)
py_get_tokens(s) ==
    LET found == FindAll(py_token_pattern, s, 1)
    IN  [k \in 1..Len(found) |-> [tok |-> found[k], len |-> Utf8Len(found[k])]]

\* keyword.kwlist
KEYWORD_LIST ==
    {"False", "None", "True", "and", "as", "assert", "async", "await", "break",
     "class", "continue", "def", "del", "elif", "else", "except", "finally", "for",
     "from", "global", "if", "import", "in", "is", "lambda", "nonlocal", "not", "or",
     "pass", "raise", "return", "try", "while", "with", "yield"}

\* the names of the built-in functions of the builtins module
builtin_functions_names ==
    {"__build_class__", "__import__", "abs", "aiter", "all", "anext", "any", "ascii",
     "bin", "breakpoint", "callable", "chr", "compile", "delattr", "dir", "divmod",
     "eval", "exec", "format", "getattr", "globals", "hasattr", "hash", "hex", "id",
     "input", "isinstance", "issubclass", "iter", "len", "locals", "max", "min",
     "next", "oct", "open", "ord", "pow", "print", "repr", "round", "setattr",
     "sorted", "sum", "vars"}

PY_DEFAULT == 0
PY_KEYWORD == 1
PY_TYPES == 2
PY_STRING == 3
PY_KEYARGS == 4
PY_BRACKETS == 5
PY_COMMENTS == 6
PY_CONSTANTS == 7
PY_FUNCTIONS == 8
PY_CLASSES == 9
PY_FUNCTION_DEF == 10

\* str.isspace(): non-empty and every character white space
IsSpaceString(s) == s # "" /\ \A k \in 1..Len(s) : IsSpace(Char(s, k))

\* str.isidentifier(): a letter or _ first, then letters, digits and _
IsIdentifier(s) ==
    /\ s # ""
    /\ Char(s, 1) \in LowerLetters \cup UpperLetters \cup {"_", E_ACUTE}
    /\ \A k \in 1..Len(s) :
          Char(s, k) \in LowerLetters \cup UpperLetters \cup Digits \cup {"_", E_ACUTE}

RECURSIVE skip_space_peek(_, _)
\* skip_space_peek(skip) on the tokens not yet taken: the first token at
\* index i >= skip whose text is not white space (the text "" when the list
\* ends first: peek_tok returns [""]), and the index after it.
skip_space_peek(rest, i) ==
    IF i + 1 > Len(rest) THEN [tok |-> "", len |-> 0, ni |-> i + 1]
    ELSE IF IsSpaceString(rest[i + 1].tok) THEN skip_space_peek(rest, i + 1)
    ELSE [tok |-> rest[i + 1].tok, len |-> rest[i + 1].len, ni |-> i + 1]

\* setStyling(name[1] + 1, style): the run set over a declaration name
declaration_run(name_len, style) == <<name_len + 1, style>>

\* One iteration of the loop: curr is the token next_tok() took and rest
\* the tokens left in token_list.  taken counts the tokens the iteration
\* removed from the list: curr, and the ni tokens of next_tok(ni).
py_iteration(curr, rest, string_flag) ==
    LET tok == curr.tok
        it(runs, after, taken) ==
            [tok |-> tok, len |-> curr.len, flag |-> string_flag, runs |-> runs,
             flag_after |-> after, raised |-> FALSE, taken |-> taken]
        one(style) == it(<<<<curr.len, style>>>>, FALSE, 1)
    IN  IF string_flag
        THEN it(<<<<curr.len, PY_STRING>>>>,
                IF tok = "\"" \/ tok = "'" THEN FALSE ELSE TRUE, 1)
        ELSE IF tok = "class"
        THEN LET name == skip_space_peek(rest, 0)
                 brac_or_colon == skip_space_peek(rest, name.ni)
             IN  IF IsIdentifier(name.tok) /\ brac_or_colon.tok \in {":", "("}
                 THEN it(<<<<curr.len, PY_KEYWORD>>, declaration_run(name.len, PY_CLASSES)>>,
                         FALSE, 1 + name.ni)
                 ELSE one(PY_KEYWORD)
        ELSE IF tok = "def"
        THEN LET name == skip_space_peek(rest, 0)
             IN  IF IsIdentifier(name.tok)
                 THEN it(<<<<curr.len, PY_KEYWORD>>,
                           declaration_run(name.len, PY_FUNCTION_DEF)>>,
                         FALSE, 1 + name.ni)
                 ELSE one(PY_KEYWORD)
        ELSE IF tok \in KEYWORD_LIST THEN one(PY_KEYWORD)
        ELSE IF IsNumeric(tok) \/ tok = "self" THEN one(PY_CONSTANTS)
        ELSE IF tok \in {"(", ")", "{", "}", "[", "]"} THEN one(PY_BRACKETS)
        ELSE IF tok = "\"" \/ tok = "'" THEN it(<<<<curr.len, PY_STRING>>>>, TRUE, 1)
        ELSE IF tok \in builtin_functions_names
                \/ tok \in {"+", "-", "*", "/", "%", "=", "<", ">"}
        THEN one(PY_TYPES)
        ELSE one(PY_DEFAULT)

RECURSIVE py_loop(_, _)
\* The while loop on the tokens left in token_list.
py_loop(toks, string_flag) ==
    IF toks = <<>> THEN <<>>
    ELSE LET step == py_iteration(Head(toks), Tail(toks), string_flag)
         IN  <<step>> \o py_loop(SubSeq(toks, step.taken + 1, Len(toks)), step.flag_after)

\* string_flag before the loop: assigned False whatever the style read is
py_initial_string_flag(start, previous_style_nr) ==
    IF start > 0
    THEN IF previous_style_nr = PY_STRING THEN FALSE ELSE FALSE
    ELSE FALSE

\* PyCustomLexer.styleText(start, end), for any byte range of the buffer
PyStyleText ==
    /\ lexer = "py"
    /\ \E start \in 0..Len(styled) : \E end \in start..Len(styled) :
        LET slice == Slice(text, start, end)
            prev  == IF start > 0 THEN <<SCI_GETSTYLEAT(start - 1)>> ELSE <<>>
            flag  == py_initial_string_flag(start, IF start > 0 THEN prev[1] ELSE PY_DEFAULT)
            its   == py_loop(py_get_tokens(slice), flag)
        IN  /\ call' = [op |-> "styleText", start |-> start, end |-> end,
                        prev_style |-> prev, text |-> slice,
                        tokens |-> py_get_tokens(slice), its |-> its, raised |-> FALSE,
                        style |-> 0, name |-> ""]
            /\ styled' = set_styling(styled, start, AllRuns(its))
    /\ UNCHANGED <<text, lexer, worker, emitted>>
    /\ UNCHANGED <<window, normalized>>

\* A buffer of PyCustomLexer is a concatenation of at most MaxPyPieces pieces.
MaxPyPieces == 3

PyPieces == {"def", "class", " ", "  ", "f", "(", ":", "\""}

PyFragments ==
    {"class Foo(Base):", "def  run(self):\n", "x = len(\"a b\") + 12", "class\n\tA :",
     "def ~(n): return n*/2", "class  def"}

InitPy ==
    /\ text \in Concats(PyPieces, MaxPyPieces) \cup PyFragments
    /\ lexer = "py"
    /\ styled = [k \in 1..Utf8Len(text) |-> 0]
    /\ call = NoCall
    /\ worker = NewWorker /\ emitted = <<>>
    /\ NewMainWindow /\ normalized = <<>>

\* The first styling request of the host on a loaded buffer.
FirstPyStyleText == call.op = "none" /\ PyStyleText

NextPy == FirstPyStyleText

SpecPy == InitPy /\ [][NextPy]_vars

---------------------------------------------------------------------------
(* SearchWorker (epiccoder/fuzzy_searcher.py): a QThread that scans the    *)
(* files of a folder for self.search_text.                                 *)

\* The host calls update at most MaxUpdates times.
MaxUpdates == 3

\* The files the search set yields, in order: a name and the lines of the
\* text with normalized line endings.
Files ==
    <<[name |-> "a.prs", lines |-> <<"(ab c", "  B ab">>],
      [name |-> "b.txt", lines |-> <<"xB ">>],
      [name |-> "c.txt", lines |-> <<"b", "", "Ab">>]>>

\* The patterns the host searches for.
SearchPatterns == {"ab", "B"}

\* str.find(sub): the least index at which sub occurs in s, -1 when none
Find(s, sub) ==
    LET at == {k \in 0..(Len(s) - Len(sub)) : SubSeq(s, k + 1, k + Len(sub)) = sub}
    IN  IF at = {} THEN -1 ELSE CHOOSE k \in at : \A m \in at : k <= m

RECURSIVE LStrip(_)
LStrip(s) == IF s # "" /\ IsSpace(Char(s, 1)) THEN LStrip(SubSeq(s, 2, Len(s))) ELSE s

RECURSIVE RStrip(_)
RStrip(s) ==
    IF s # "" /\ IsSpace(Char(s, Len(s))) THEN RStrip(SubSeq(s, 1, Len(s) - 1)) ELSE s

\* str.strip()
Strip(s) == RStrip(LStrip(s))

\* SearchItem(filename, full_path, lineno, end, line)
SearchItem(name, lineno, end, line) ==
    [name |-> name, lineno |-> lineno, end |-> end, line |-> line]

RECURSIVE search_lines(_, _, _, _)
\* The loop over the lines of search_in_file from line i (0-based) on, for
\* a plain-text search: an item for every line in which target_text occurs.
search_lines(file, target_text, ignore_case, i) ==
    IF i >= Len(file.lines) THEN <<>>
    ELSE LET line == file.lines[i + 1]
             pos  == IF ignore_case THEN Find(Lower(line), Lower(target_text))
                     ELSE Find(line, target_text)
             rest == search_lines(file, target_text, ignore_case, i + 1)
         IN  IF pos # -1
             THEN <<SearchItem(file.name, i, pos + Len(target_text),
                               Slice(Strip(Slice(line, pos, Len(line))), 0, 50))>> \o rest
             ELSE rest

\* search_in_file(full_path, filename, use_regex = False, ignore_case),
\* with target_text the value of self.search_text when the file is read
search_in_file(file, target_text, ignore_case) ==
    search_lines(file, target_text, ignore_case, 0)

\* QThread.start(): begins the thread that executes run(); nothing happens
\* when the thread is already running.
start(w) ==
    IF w.running THEN w
    ELSE [w EXCEPT !.running = TRUE, !.pc = "search", !.started = @ + 1,
                   !.run = [NewWorker.run EXCEPT !.pattern = w.search_text]]

\* SearchWorker.update(pattern, path, ignore_hidden, ignore_case, ...), on
\* the thread of the host
Update ==
    /\ worker.updates < MaxUpdates
    /\ \E pattern \in SearchPatterns : \E ignore_case \in BOOLEAN :
        worker' = start([worker EXCEPT !.search_text = <<pattern>>,
                                        !.ignore_case = <<ignore_case>>,
                                        !.updates = @ + 1])
    /\ UNCHANGED <<text, lexer, styled, call, emitted>>
    /\ UNCHANGED <<window, normalized>>

\* run() -> search(), up to the loop over the files: the option callables
\* are called once and the result list starts empty.
SearchBegin ==
    /\ worker.running /\ worker.pc = "search"
    /\ worker' = [worker EXCEPT !.pc = "scan",
                                !.run.ignore_case = worker.ignore_case[1],
                                !.run.next = 1, !.run.items = <<>>]
    /\ UNCHANGED <<text, lexer, styled, call, emitted>>
    /\ UNCHANGED <<window, normalized>>

\* One iteration of the loop over the files: search_in_file reads
\* self.search_text when it is called.
SearchFile ==
    /\ worker.running /\ worker.pc = "scan" /\ worker.run.next <= Len(Files)
    /\ worker' = [worker EXCEPT
                    !.run.items = @ \o search_in_file(Files[worker.run.next],
                                                      worker.search_text[1],
                                                      worker.run.ignore_case),
                    !.run.next = @ + 1]
    /\ UNCHANGED <<text, lexer, styled, call, emitted>>
    /\ UNCHANGED <<window, normalized>>

\* self.finished.emit(items), after the last file
FinishedEmit ==
    /\ worker.running /\ worker.pc = "scan" /\ worker.run.next > Len(Files)
    /\ emitted' = Append(emitted, [items |-> worker.run.items,
                                   pattern |-> worker.run.pattern[1],
                                   ignore_case |-> worker.run.ignore_case,
                                   updates |-> worker.updates])
    /\ worker' = [worker EXCEPT !.pc = "return"]
    /\ UNCHANGED <<text, lexer, styled, call>>
    /\ UNCHANGED <<window, normalized>>

\* run() returns and the thread ends
RunReturn ==
    /\ worker.running /\ worker.pc = "return"
    /\ worker' = [worker EXCEPT !.running = FALSE, !.pc = "idle", !.returned = @ + 1]
    /\ UNCHANGED <<text, lexer, styled, call, emitted>>
    /\ UNCHANGED <<window, normalized>>

InitSearch ==
    /\ text = "" /\ lexer = "none" /\ styled = <<>> /\ call = NoCall
    /\ worker = NewWorker /\ emitted = <<>>
    /\ NewMainWindow /\ normalized = <<>>

NextSearch == Update \/ SearchBegin \/ SearchFile \/ FinishedEmit \/ RunReturn

SpecSearch == InitSearch /\ [][NextSearch]_vars

---------------------------------------------------------------------------
(* The tabs of MainWindow (epiccoder/mainwindow.py) and their editors      *)
(* (epiccoder/customeditor.py).  A tab is a record: label and tooltip of   *)
(* the tab bar, and of its CustomEditor the fields file_path, lexer (the   *)
(* class of the lexer __init__ attached) and got_first_change_event;       *)
(* changed records that the user changed the text after the load or the    *)
(* last write of the buffer.                                               *)

\* The handler calls explored in one session of the window.
MaxOps == 4

\* for _ in range(9999)
Attempts == 9999

\* The paths the user picks in the tree view, the search list and the
\* Open File dialog: the files of InitialDisk that are not generated
\* names but one, and a folder.
OpenChoices ==
    {Path(rootPath, "a", ".prs"), Path("/x", "a", ".prs"),
     Path(rootPath, "image", ".png"), Path(rootPath, "latin1", ".txt"),
     Path(rootPath, "locked", ".txt"), Path(rootPath, "untitled1", ".txt"),
     Path(rootPath, "sub", "")}

\* The paths the user picks in the Save As dialog.
SaveAsChoices == {Path(rootPath, "a", ".prs"), Path(rootPath, "c", ".txt")}

\* The file types of the New File menu that are explored.
NewFileTypes == {".txt", ".prs"}

\* Path.is_file() and Path.exists() on the file system d
is_file(p, d) == p \in DOMAIN d

\* Path.write_text on the file system d
write_text(d, p) == [q \in DOMAIN d \cup {p} |-> IF q = p THEN "text" ELSE d[q]]

\* Path.unlink(missing_ok=True)
unlink(d, p) == [q \in DOMAIN d \ {p} |-> d[q]]

\* CustomEditor.__init__: the lexer attached for the suffix of file_path
lexer_for(p) ==
    IF p.suffix = ".py" THEN "QsciLexerPython"
    ELSE IF p.suffix \in {".h", ".c", ".cpp", ".hpp"} THEN "QsciLexerCPP"
    ELSE IF p.suffix = ".prs" THEN "PPSCustomLexer"
    ELSE "TextCustomLexer"

\* get_editor(file_path) with the tab label and tooltip set_new_tab gives it
get_editor(file_path, label) ==
    [label |-> label, tooltip |-> path_str(file_path), file_path |-> file_path,
     lexer |-> lexer_for(file_path), got_first_change_event |-> FALSE,
     changed |-> FALSE]

RECURSIVE lstrip_star(_)
\* str.lstrip("*")
lstrip_star(s) ==
    IF StartsWith(s, "*") THEN lstrip_star(Slice(s, 1, Len(s))) ELSE s

\* the least member of a non-empty set of integers
Least(S) == CHOOSE i \in S : \A j \in S : i <= j

\* MainWindow.add_star(file_path) on the tabs ts: the first tab whose label
\* without leading stars is the name of the file gets a star if it has none.
add_star(ts, file_path) ==
    LET found == {i \in 1..Len(ts) : lstrip_star(ts[i].label) = path_name(file_path)}
    IN  IF found = {} THEN ts
        ELSE LET i == Least(found)
             IN  IF StartsWith(ts[i].label, "*") THEN ts
                 ELSE [ts EXCEPT ![i].label = "*" \o @]

\* QTabWidget.addTab on the window w: the tab is appended, and becomes the
\* current tab when it is the only one.
addTab(w, tab) ==
    [w EXCEPT !.tabs = Append(@, tab),
              !.current = IF Len(w.tabs) = 0 THEN 1 ELSE @]

\* QTabWidget.removeTab(i): the tab to the right of a removed current tab
\* becomes current, or the last tab when there is none.
removeTab(w, i) ==
    LET rest == [k \in 1..(Len(w.tabs) - 1) |-> IF k < i THEN w.tabs[k] ELSE w.tabs[k + 1]]
    IN  [w EXCEPT !.tabs = rest,
                  !.current = IF Len(rest) = 0 THEN 0
                              ELSE IF i < @ THEN @ - 1
                              ELSE IF @ > Len(rest) THEN Len(rest)
                              ELSE @]

RECURSIVE next_new_file_path_from(_, _, _, _, _)
\* The loop of next_new_file_path from counter value n with left attempts:
\* the path returned and the value int_gen yields next.
next_new_file_path_from(file_type, stem, d, n, left) ==
    LET p == Path(rootPath, stem \o ToString(n), Lower(file_type))
    IN  IF left = 0 \/ ~is_file(p, d) THEN [path |-> p, next |-> n + 1]
        ELSE next_new_file_path_from(file_type, stem, d, n + 1, left - 1)

\* MainWindow.next_new_file_path(file_type, stem) on the window w
next_new_file_path(w, file_type, stem, d) ==
    LET r == next_new_file_path_from(file_type, IF stem # "" THEN stem ELSE "untitled",
                                     d, w.int_gen, Attempts)
    IN  [path |-> r.path,
         w |-> [w EXCEPT !.int_gen = r.next, !.issued = Append(@, path_str(r.path))]]

\* The window as a record, to follow a handler through the calls it makes.
Here ==
    [tabs |-> tabs, current |-> current, menu |-> menu, busy |-> set_new_tab_busy,
     int_gen |-> int_gen, issued |-> issued, pc |-> pc, exit |-> ""]

\* Faulty variant (mutation test): the flag is left set when the file is
\* already open.
finally_not_on_already_open(exit) ==
    IF exit = "already_open" THEN "True" ELSE "False"

\* finally: self.set_new_tab_busy = False, on the exit path named exit
finally(exit) == "False"

\* The try block of set_new_tab on the file system d; path is <<>> for None.
set_new_tab_try(w, path, is_new_file, file_type, d) ==
    IF path # <<>> /\ ~is_file(path[1], d) THEN [w EXCEPT !.exit = "not_a_file"]
    ELSE
    LET r  == IF is_new_file THEN next_new_file_path(w, file_type, "untitled", d)
              ELSE [path |-> path[1], w |-> w]
        new_file_path == r.path
        w1 == r.w
        open_at == {i \in 1..Len(w1.tabs) : w1.tabs[i].tooltip = path_str(new_file_path)}
        editor == get_editor(new_file_path, path_name(new_file_path))
    IN  IF open_at # {}
        THEN [w1 EXCEPT !.current = Least(open_at), !.exit = "already_open"]
        ELSE IF is_new_file
        THEN [w1 EXCEPT !.tabs = Append(@, [editor EXCEPT !.label = "*" \o @]),
                        !.current = Len(w1.tabs) + 1,
                        !.exit = "new_file"]
        ELSE IF d[path[1]] = "unreadable" THEN [w1 EXCEPT !.exit = "raised"]
        ELSE IF d[path[1]] = "binary" THEN [w1 EXCEPT !.exit = "binary"]
        ELSE LET added == addTab(w1, editor)
             IN  IF d[new_file_path] = "undecodable"
                 THEN [added EXCEPT !.exit = "warning_box"]
                 ELSE [added EXCEPT !.tabs[Len(added.tabs)].got_first_change_event = TRUE,
                                    !.current = Len(added.tabs),
                                    !.menu = [dupe_file |-> TRUE, delete_file |-> TRUE],
                                    !.exit = "opened"]

\* MainWindow.set_new_tab(path, is_new_file, file_type): the window it
\* leaves, or the window while it waits in the warning box.
set_new_tab(w, path, is_new_file, file_type, d) ==
    IF w.busy = "True" THEN [w EXCEPT !.exit = "busy"]
    ELSE LET r == set_new_tab_try([w EXCEPT !.busy = "True"], path, is_new_file, file_type, d)
         IN  IF r.exit = "warning_box" THEN [r EXCEPT !.pc = "warning_box"]
             ELSE [r EXCEPT !.busy = finally(r.exit)]

\* MainWindow.close_tab(index) once the user has not refused
close_tab(w, index) ==
    LET r == removeTab(w, index)
    IN  [r EXCEPT !.menu = [dupe_file |-> Len(r.tabs) > 0, delete_file |-> Len(r.tabs) > 0]]

\* The window w becomes the state, within the explored session length.
Commit(w, handler) ==
    /\ op.nr < MaxOps
    /\ tabs' = w.tabs /\ current' = w.current /\ menu' = w.menu
    /\ set_new_tab_busy' = w.busy /\ int_gen' = w.int_gen /\ issued' = w.issued
    /\ pc' = w.pc
    /\ op' = [name |-> handler, exit |-> w.exit, nr |-> op.nr + 1]

\* tree_view_clicked, search_list_view_clicked, open_file: set_new_tab(path)
OpenFile ==
    /\ pc = "idle"
    /\ \E path \in OpenChoices : Commit(set_new_tab(Here, <<path>>, FALSE, "txt", disk), "set_new_tab")
    /\ UNCHANGED <<disk, text, lexer, styled, call, worker, emitted, normalized>>

\* A set_new_tab call that arrives while the warning box of another is open.
SetNewTabWhileBusy ==
    /\ pc = "warning_box"
    /\ \E path \in OpenChoices : Commit(set_new_tab(Here, <<path>>, FALSE, "txt", disk), "set_new_tab")
    /\ UNCHANGED <<disk, text, lexer, styled, call, worker, emitted, normalized>>

\* The warning box is closed: set_new_tab returns through its finally.
WarningBoxClosed ==
    /\ pc = "warning_box"
    /\ Commit([Here EXCEPT !.pc = "idle", !.busy = finally("read_error"), !.exit = "read_error"],
              "set_new_tab")
    /\ UNCHANGED <<disk, text, lexer, styled, call, worker, emitted, normalized>>

\* new_file(file_type)
NewFile ==
    /\ pc = "idle"
    /\ \E file_type \in NewFileTypes :
        Commit(set_new_tab(Here, <<>>, TRUE, file_type, disk), "new_file")
    /\ UNCHANGED <<disk, text, lexer, styled, call, worker, emitted, normalized>>

\* duplicate_file, the dialog accepted with the proposed name or cancelled
DuplicateFile ==
    /\ pc = "idle"
    /\ Len(tabs) > 0
    /\ LET p == tabs[current].file_path
           r == next_new_file_path(Here, p.suffix, p.stem, disk)
           dupe_path == Path(p.parent, r.path.stem, r.path.suffix)
       IN  \E accepted \in BOOLEAN :
            IF ~accepted
            THEN Commit([r.w EXCEPT !.exit = "cancelled"], "duplicate_file") /\ disk' = disk
            ELSE IF ~is_file(p, disk) \/ disk[p] # "text"
            THEN Commit([r.w EXCEPT !.exit = "read_raised"], "duplicate_file") /\ disk' = disk
            ELSE /\ disk' = write_text(disk, dupe_path)
                 /\ Commit(set_new_tab(r.w, <<dupe_path>>, FALSE, p.suffix, disk'),
                           "duplicate_file")
    /\ UNCHANGED <<text, lexer, styled, call, worker, emitted, normalized>>

\* remove_file, the question answered Yes
RemoveFile ==
    /\ pc = "idle"
    /\ Len(tabs) > 0
    /\ disk' = unlink(disk, tabs[current].file_path)
    /\ Commit(close_tab(Here, current), "remove_file")
    /\ UNCHANGED <<text, lexer, styled, call, worker, emitted, normalized>>

\* close_tab(index) from the close button of a tab, the question (asked
\* when the label starts with a star) answered Yes
CloseTab ==
    /\ pc = "idle"
    /\ \E index \in 1..Len(tabs) : Commit(close_tab(Here, index), "close_tab")
    /\ UNCHANGED <<disk, text, lexer, styled, call, worker, emitted, normalized>>

\* The user selects another tab.
SelectTab ==
    /\ pc = "idle"
    /\ \E index \in 1..Len(tabs) :
        index # current /\ Commit([Here EXCEPT !.current = index], "select_tab")
    /\ UNCHANGED <<disk, text, lexer, styled, call, worker, emitted, normalized>>

\* The user changes the text of the current editor: onTextChanged.
TextChanged ==
    /\ pc = "idle"
    /\ Len(tabs) > 0
    /\ LET e == tabs[current]
           seen == [tabs EXCEPT ![current].changed = TRUE,
                                ![current].got_first_change_event = TRUE]
       IN  Commit([Here EXCEPT !.tabs = IF ~e.got_first_change_event THEN seen
                                        ELSE add_star(seen, e.file_path)],
                  "onTextChanged")
    /\ UNCHANGED <<disk, text, lexer, styled, call, worker, emitted, normalized>>

\* save_file, the write succeeding
SaveFile ==
    /\ pc = "idle"
    /\ Len(tabs) > 0
    /\ disk' = write_text(disk, tabs[current].file_path)
    /\ Commit([Here EXCEPT !.tabs[current].label = lstrip_star(@),
                           !.tabs[current].changed = FALSE], "save_file")
    /\ UNCHANGED <<text, lexer, styled, call, worker, emitted, normalized>>

\* save_as, a path picked in the dialog and the write succeeding
SaveAs ==
    /\ pc = "idle"
    /\ Len(tabs) > 0
    /\ \E new_path \in SaveAsChoices :
        /\ disk' = write_text(disk, new_path)
        /\ Commit([Here EXCEPT !.tabs[current].label = path_name(new_path),
                               !.tabs[current].tooltip = path_str(new_path),
                               !.tabs[current].file_path = new_path,
                               !.tabs[current].changed = FALSE], "save_as")
    /\ UNCHANGED <<text, lexer, styled, call, worker, emitted, normalized>>

InitTabs ==
    /\ text = "" /\ lexer = "none" /\ styled = <<>> /\ call = NoCall
    /\ worker = NewWorker /\ emitted = <<>>
    /\ NewMainWindow /\ normalized = <<>>

NextTabs ==
    \/ OpenFile \/ SetNewTabWhileBusy \/ WarningBoxClosed \/ NewFile
    \/ DuplicateFile \/ RemoveFile \/ CloseTab \/ SelectTab \/ TextChanged
    \/ SaveFile \/ SaveAs

SpecTabs == InitTabs /\ [][NextTabs]_vars

---------------------------------------------------------------------------
(* normalize_line_endings of epiccoder/textutils.py, on every text of at   *)
(* most MaxEolLen characters over CR, LF and a letter, applied once and    *)
(* then once more to its own result.                                       *)

MaxEolLen == 4

EolAlphabet == {"\r", "\n", "a"}

\* QsciScintilla.EolWindows, EolUnix and EolMac
EolModes == {"EolWindows", "EolUnix", "EolMac"}

RECURSIVE replace(_, _, _)
\* str.replace(old, new): the occurrences of old from left to right,
\* without overlap
replace(s, old, new) ==
    IF Len(s) < Len(old) THEN s
    ELSE IF StartsWith(s, old) THEN new \o replace(Slice(s, Len(old), Len(s)), old, new)
    ELSE Char(s, 1) \o replace(Slice(s, 1, Len(s)), old, new)

\* Faulty variant (mutation test): CR is replaced before CR LF is.
normalize_line_endings_cr_first(t, eol_mode) ==
    LET u == replace(replace(t, "\r", "\n"), "\r\n", "\n")
    IN  IF eol_mode = "EolWindows" THEN replace(u, "\n", "\r\n")
        ELSE IF eol_mode = "EolMac" THEN replace(u, "\n", "\r")
        ELSE u

\* normalize_line_endings(text, eol_mode)
normalize_line_endings(t, eol_mode) ==
    LET u == replace(replace(t, "\r\n", "\n"), "\r", "\n")
    IN  IF eol_mode = "EolWindows" THEN replace(u, "\n", "\r\n")
        ELSE IF eol_mode = "EolMac" THEN replace(u, "\n", "\r")
        ELSE u

InitEol ==
    /\ text \in Concats(EolAlphabet, MaxEolLen)
    /\ lexer = "none" /\ styled = <<>> /\ call = NoCall
    /\ worker = NewWorker /\ emitted = <<>>
    /\ NewMainWindow /\ normalized = <<>>

\* normalize_line_endings(text, eol_mode) on the text of the buffer
NormalizeLineEndings ==
    /\ normalized = <<>>
    /\ \E eol_mode \in EolModes :
        normalized' = <<[eol_mode |-> eol_mode, input |-> text, times |-> 1,
                         out |-> normalize_line_endings(text, eol_mode)]>>
    /\ UNCHANGED <<text, lexer, styled, call, worker, emitted, window>>

\* normalize_line_endings applied to its own result, in the same mode
NormalizeAgain ==
    /\ normalized # <<>> /\ normalized[1].times = 1
    /\ normalized' = <<[eol_mode |-> normalized[1].eol_mode, input |-> normalized[1].out,
                        times |-> 2,
                        out |-> normalize_line_endings(normalized[1].out,
                                                       normalized[1].eol_mode)]>>
    /\ UNCHANGED <<text, lexer, styled, call, worker, emitted, window>>

NextEol == NormalizeLineEndings \/ NormalizeAgain

SpecEol == InitEol /\ [][NextEol]_vars

---------------------------------------------------------------------------
(* Vocabulary of the properties.                                           *)

RECURSIVE SumLens(_)
\* the sum of the lengths of the runs
SumLens(runs) == IF runs = <<>> THEN 0 ELSE Head(runs)[1] + SumLens(Tail(runs))

RECURSIVE JoinToks(_)
\* the token texts concatenated in order
JoinToks(toks) == IF toks = <<>> THEN "" ELSE Head(toks).tok \o JoinToks(Tail(toks))

\* the last call was a styleText call of PPSCustomLexer
PPSCall == call.op = "styleText" /\ lexer = "pps"

\* iteration k of the call set exactly one run, of style st, over its token
StyledAs(c, k, st) == c.its[k].runs = <<<<c.its[k].len, st>>>>

IsLineTerminator(c) == c = "\n" \/ c = "\r"

HasLineTerminator(tok) == \E k \in 1..Len(tok) : IsLineTerminator(Char(tok, k))

\* the token starts with ; or with //
IsCommentLead(tok) ==
    Char(tok, 1) = ";" \/ (Len(tok) >= 2 /\ Char(tok, 1) = "/" /\ Char(tok, 2) = "/")

\* The style rules 1-8 give a lowercased token (<<>> when none matches);
\* the number rule is the test the lexer makes, str.isnumeric().
RuleStyle(tok) ==
    CASE tok \in RULE_SECTIONS -> <<RULE_SECTION>>
      [] tok \notin RULE_SECTIONS /\ tok \in COMPARISONS -> <<COMPARISON>>
      [] tok \notin RULE_SECTIONS \cup COMPARISONS /\ tok \in DIRECTIVES -> <<DIRECTIVE>>
      [] tok \notin RULE_SECTIONS \cup COMPARISONS \cup DIRECTIVES
         /\ tok \in ARCHITECTURES -> <<ARCHITECTURE>>
      [] tok \notin RULE_SECTIONS \cup COMPARISONS \cup DIRECTIVES \cup ARCHITECTURES
         /\ tok \in KEYWORDS -> <<KEYWORD>>
      [] OTHER ->
           IF IsNumeric(tok) THEN <<NUMBER>>
           ELSE IF tok = "(" \/ tok = ")" THEN <<PARENS>>
           ELSE IF IsCommentLead(tok) THEN <<COMMENT>>
           ELSE <<>>

\* One entry <<character, k>> per UTF-8 byte of s: byte k of that character.
RECURSIVE BufferBytes(_)
BufferBytes(s) ==
    IF s = "" THEN <<>>
    ELSE [k \in 1..CharBytes(Char(s, 1)) |-> <<Char(s, 1), k>>]
         \o BufferBytes(SubSeq(s, 2, Len(s)))

\* the buffer content occupying bytes [a, b)
RangeBytes(a, b) == SubSeq(BufferBytes(text), a + 1, b)

\* the byte offsets at which a token of the whole buffer starts or ends
TokenBoundaries ==
    LET toks == get_tokens(text)
    IN  {SumLens([k \in 1..n |-> <<toks[k].len, 0>>]) : n \in 0..Len(toks)}

---------------------------------------------------------------------------
(* C1: in every styleText call of either lexer the lengths given to        *)
(* setStyling sum to end - start.                                          *)
C1_LengthConservation ==
    call.op = "styleText" => SumLens(AllRuns(call.its)) = call.end - call.start

(* C2: a PPS styleText call whose range starts after a byte styled COMMENT *)
(* starts in the comment state and styles its first token Comment; any     *)
(* other call starts in the normal state.                                  *)
C2_SeedFromPrecedingStyle ==
    (PPSCall /\ call.its # <<>>) =>
        LET seeded == call.start > 0 /\ call.prev_style = <<COMMENT>>
        IN  /\ call.its[1].flag = seeded
            /\ seeded => StyledAs(call, 1, COMMENT)

(* C3: styleText(0, k) followed by styleText(k, N), k a token boundary of  *)
(* the buffer of N bytes, leaves the style buffer as the single call       *)
(* styleText(0, N) on the loaded buffer does.                              *)
C3_SplitEquivalence ==
    [][(/\ lexer = "pps"
        /\ call.op = "styleText" /\ call.start = 0 /\ call.end \in TokenBoundaries
        /\ call'.op = "styleText" /\ call'.start = call.end
        /\ call'.end = Len(styled))
       => styled' = set_styling([k \in 1..Len(styled) |-> 0], 0,
                        AllRuns(pps_loop(token_list(Slice(text, 0, Len(styled))), 1,
                                         initial_string_flag(0, DEFAULT), <<>>)))]_vars

(* C4: from a token starting with ; or // met in the normal state on, that *)
(* token and every later token with no line terminator in a token between  *)
(* them are styled Comment.                                                *)
C4_CommentContainment ==
    PPSCall =>
        \A i \in 1..Len(call.its) : \A j \in i..Len(call.its) :
            (/\ ~call.its[i].flag
             /\ IsCommentLead(call.its[i].tok)
             /\ \A m \in (i + 1)..(j - 1) : ~HasLineTerminator(call.its[m].tok))
            => StyledAs(call, j, COMMENT)

C4_Witness ==
    /\ PPSCall
    /\ \E i \in 1..Len(call.its) : \E j \in (i + 1)..Len(call.its) :
        /\ ~call.its[i].flag /\ IsCommentLead(call.its[i].tok)
        /\ \A m \in (i + 1)..j : ~HasLineTerminator(call.its[m].tok)
        /\ call.its[j].tok \in {"if", "1", "(", "?"}
        /\ StyledAs(call, j, COMMENT)

(* C5 as stated: in the comment state a token is styled Comment, and the   *)
(* state is left after it exactly when its first character is a line       *)
(* terminator.                                                             *)
C5_ExitAtLeadingTerminator ==
    PPSCall =>
        \A i \in 1..Len(call.its) :
            call.its[i].flag =>
                /\ StyledAs(call, i, COMMENT)
                /\ ~call.its[i].flag_after <=> IsLineTerminator(Char(call.its[i].tok, 1))
                /\ i < Len(call.its) => call.its[i + 1].flag = call.its[i].flag_after

(* C5 amended: in the comment state a token is styled Comment, and the     *)
(* state is left after it exactly when its first or its last character is  *)
(* a line terminator; the next token is then handled in the normal state.  *)
C5_ExitAtTerminatorEdge ==
    PPSCall =>
        \A i \in 1..Len(call.its) :
            call.its[i].flag =>
                /\ StyledAs(call, i, COMMENT)
                /\ ~call.its[i].flag_after <=>
                       \/ IsLineTerminator(Char(call.its[i].tok, 1))
                       \/ IsLineTerminator(Char(call.its[i].tok, Len(call.its[i].tok)))
                /\ i < Len(call.its) => call.its[i + 1].flag = call.its[i].flag_after

C5_Witness ==
    /\ PPSCall
    /\ \E i \in 1..(Len(call.its) - 1) :
        /\ call.its[i].flag
        /\ ~IsLineTerminator(Char(call.its[i].tok, 1))
        /\ IsLineTerminator(Char(call.its[i].tok, Len(call.its[i].tok)))
        /\ StyledAs(call, i, COMMENT)
        /\ ~call.its[i + 1].flag
        /\ StyledAs(call, i + 1, RULE_SECTION)

(* C6: no PPS styleText call raises an error.                              *)
C6_NoError == PPSCall => ~call.raised

(* C7: the tokens get_tokens returns are non-empty and, concatenated in    *)
(* order, give back the input string.                                      *)
C7_LosslessPartition ==
    call.op = "get_tokens" =>
        /\ JoinToks(call.tokens) = call.text
        /\ \A k \in 1..Len(call.tokens) : call.tokens[k].tok # ""

C7_Witness ==
    /\ call.op = "get_tokens"
    /\ Len(call.tokens) >= 2
    /\ \E k \in 1..Len(call.tokens) : Len(call.tokens[k].tok) >= 2
    /\ \E k \in 1..Len(call.tokens) : call.tokens[k].tok = ";"

(* C8: two successive PPS styleText calls whose byte ranges hold the same  *)
(* content and whose byte start - 1 has the same style (or is absent in    *)
(* both) emit the same runs.                                               *)
C8_Determinism ==
    [][(/\ lexer = "pps"
        /\ call.op = "styleText" /\ call'.op = "styleText"
        /\ RangeBytes(call.start, call.end) = RangeBytes(call'.start, call'.end)
        /\ call.prev_style = call'.prev_style)
       => AllRuns(call'.its) = AllRuns(call.its)]_vars


(* C9: in the normal state a token whose lowercased text matches one of    *)
(* the rules 1-8 gets the style of the first rule that matches, whatever   *)
(* the tokens around it are; IF, if, THEN and Visual are styled as their   *)
(* lowercase forms.                                                        *)
C9_NormalRules ==
    PPSCall =>
        \A i \in 1..Len(call.its) :
            ~call.its[i].flag =>
                LET raw == call.tokens[i].tok
                    st  == RuleStyle(Lower(raw))
                IN  /\ st # <<>> => StyledAs(call, i, st[1])
                    /\ raw \in {"if", "IF", "THEN"} => StyledAs(call, i, RULE_SECTION)
                    /\ raw = "Visual" => StyledAs(call, i, ARCHITECTURE)

C9_Witness ==
    /\ PPSCall
    /\ \E i \in 2..(Len(call.its) - 1) :
        /\ call.tokens[i].tok = "Visual"
        /\ call.tokens[i - 1].tok = "("
        /\ IsLineTerminator(Char(call.tokens[i + 1].tok, 1))
        /\ StyledAs(call, i, ARCHITECTURE)
    /\ \E j \in 1..Len(call.its) :
        call.tokens[j].tok = "THEN" /\ StyledAs(call, j, RULE_SECTION)

C11_VariableRules ==
    PPSCall =>
        \A i \in 1..Len(call.its) :
            LET tok      == call.its[i].tok
                prev     == IF i > 1 THEN <<call.tokens[i - 1].tok>> ELSE <<>>
                next     == IF i < Len(call.tokens) THEN <<call.tokens[i + 1].tok>> ELSE <<>>
                ruleName == /\ Len(tok) > 2
                            /\ prev = <<"(">>
                            /\ next # <<>> /\ IsLineTerminator(Char(next[1], 1))
                variable == \/ tok = "?" /\ prev \in {<<"?">>, <<" ">>, <<"(">>}
                            \/ ~Contains(tok, "?") /\ prev = <<"?">>
            IN  (~call.its[i].flag /\ RuleStyle(tok) = <<>> /\ ~ruleName) =>
                    /\ variable => StyledAs(call, i, VARIABLE_)
                    /\ ~variable => StyledAs(call, i, DEFAULT)

(* C12: TextCustomLexer gives every token one run of style Default or      *)
(* Number; the style is Number exactly when every character of the token   *)
(* is a decimal digit, so ; and // and keywords are Default and a token    *)
(* after ; is styled by its own text.                                      *)
C12_TextNumberOnly ==
    (call.op = "styleText" /\ lexer = "text") =>
        \A i \in 1..Len(call.its) :
            LET tok       == call.tokens[i].tok
                allDigits == \A k \in 1..Len(tok) : Char(tok, k) \in Digits
            IN  /\ allDigits => StyledAs(call, i, TEXT_NUMBER)
                /\ ~allDigits => StyledAs(call, i, TEXT_DEFAULT)

\* the byte offsets at which a character of the buffer starts or ends
CharBoundaries == {Utf8Len(SubSeq(text, 1, n)) : n \in 0..Len(text)}

(* C13: the text a styleText call of either lexer tokenizes is the buffer  *)
(* content occupying the bytes [start, end) of the style buffer, for every *)
(* range that starts and ends between two characters.                      *)
C13_ByteRangeText ==
    (/\ call.op = "styleText"
     /\ call.start \in CharBoundaries /\ call.end \in CharBoundaries)
    => BufferBytes(call.text) = RangeBytes(call.start, call.end)

(* C14: a styleText call of either lexer on an empty range (start = end)   *)
(* emits no run and raises no error, whatever the style of the byte before *)
(* start is.                                                               *)
C14_EmptyRange ==
    (call.op = "styleText" /\ call.start = call.end) =>
        /\ AllRuns(call.its) = <<>>
        /\ call.its = <<>>
        /\ ~call.raised

C14_Witness ==
    /\ PPSCall
    /\ call.start = call.end /\ call.start > 0 /\ call.start < Len(styled)
    /\ call.prev_style = <<COMMENT>>
    /\ AllRuns(call.its) = <<>> /\ ~call.raised

\* the style ids PPSCustomLexer.__init__ and TextCustomLexer.__init__ define
DefinedStyles ==
    IF lexer = "pps"
    THEN {DEFAULT, RULE_SECTION, COMPARISON, DIRECTIVE, ARCHITECTURE, COMMENT,
          NUMBER, RULE_NAME, VARIABLE_, KEYWORD, PARENS}
    ELSE {TEXT_DEFAULT, TEXT_NUMBER}

(* C15: description(style) of the attached lexer is a non-empty name for   *)
(* each style id the lexer defines, a name no other defined id has, and    *)
(* the empty string for any other integer; every style a styleText call    *)
(* gives to setStyling is a defined id of the lexer.                       *)
C15_Descriptions ==
    /\ call.op = "description" =>
        /\ call.style \in DefinedStyles => call.name # ""
        /\ call.style \notin DefinedStyles => call.name = ""
        /\ \A other \in DefinedStyles \ {call.style} :
              call.name # "" =>
                  call.name # (IF lexer = "pps" THEN pps_description(other)
                               ELSE text_description(other))
    /\ call.op = "styleText" =>
        \A k \in 1..Len(AllRuns(call.its)) : AllRuns(call.its)[k][2] \in DefinedStyles

C15_Witness ==
    /\ call.op = "description" /\ lexer = "pps"
    /\ call.style = PARENS /\ call.name = "PARENS"
    /\ \E k \in 1..Len(styled) : styled[k] = PARENS

(* C18: a comment ends at the end of its line: the token after the first   *)
(* token holding a line terminator that is met in the comment state is     *)
(* handled in the normal state, and is not styled Comment unless it is a   *)
(* comment-lead marker itself.                                             *)
C18_CommentEndsAtLineEnd ==
    PPSCall =>
        \A m \in 1..(Len(call.its) - 1) :
            (call.its[m].flag /\ HasLineTerminator(call.its[m].tok)) =>
                /\ ~call.its[m + 1].flag
                /\ ~IsCommentLead(call.its[m + 1].tok) => ~StyledAs(call, m + 1, COMMENT)

(* C20: styling a buffer that consists of one entry of the tables          *)
(* RULE_SECTIONS, COMPARISONS, DIRECTIVES, ARCHITECTURES or KEYWORDS, as a *)
(* whole, gives every byte of the entry the style of its table.            *)
C20_TableEntriesMatched ==
    (/\ PPSCall /\ call.start = 0 /\ call.end = Len(styled)
     /\ text \in TableEntries)
    => /\ ~call.raised
       /\ styled = [k \in 1..Len(styled) |-> RuleStyle(text)[1]]

\* the token of the iteration of the call that starts at token n of the range
RECURSIVE TokenIndex(_, _)
TokenIndex(its, k) == IF k = 1 THEN 1 ELSE TokenIndex(its, k - 1) + its[k - 1].taken

(* C19: in a PyCustomLexer.styleText call whose range text is the content  *)
(* of the bytes [start, end), the setStyling lengths sum to end - start;   *)
(* an iteration on class or def that styles a declaration name takes the   *)
(* white space and the identifier that follow and nothing else, and its    *)
(* second run covers exactly the bytes of those tokens.                    *)
C19_PyLengthConservation ==
    (/\ call.op = "styleText" /\ lexer = "py"
     /\ BufferBytes(call.text) = RangeBytes(call.start, call.end))
    => /\ SumLens(AllRuns(call.its)) = call.end - call.start
       /\ \A k \in 1..Len(call.its) :
            Len(call.its[k].runs) = 2 =>
                LET n     == TokenIndex(call.its, k)
                    taken == SubSeq(call.tokens, n + 1, n + call.its[k].taken - 1)
                IN  /\ call.its[k].tok \in {"class", "def"}
                    /\ IsIdentifier(taken[Len(taken)].tok)
                    /\ \A m \in 1..(Len(taken) - 1) : IsSpaceString(taken[m].tok)
                    /\ call.its[k].runs[2][1] = Utf8Len(JoinToks(taken))

RECURSIVE search_all(_, _, _)
\* the complete result of one search: the items of every file from file n
\* on, all for the one pattern
search_all(pattern, ignore_case, n) ==
    IF n > Len(Files) THEN <<>>
    ELSE search_in_file(Files[n], pattern, ignore_case)
         \o search_all(pattern, ignore_case, n + 1)

(* C16: every list SearchWorker.finished emits holds the matches of one    *)
(* pattern, the pattern of the update call that started the run, and at    *)
(* most one run executes at a time.                                        *)
C16_OnePatternPerRun ==
    /\ \A k \in 1..Len(emitted) :
          emitted[k].items = search_all(emitted[k].pattern, emitted[k].ignore_case, 1)
    /\ worker.started - worker.returned \in {0, 1}

(* C17: once the thread is idle after the last update call, finished has   *)
(* been emitted after that call with the complete results for its pattern  *)
(* (under the case option the emitting run read), and every started run    *)
(* has emitted finished exactly once.                                      *)
C17_LastRequestServed ==
    (worker.pc = "idle" /\ worker.updates > 0) =>
        /\ \E k \in 1..Len(emitted) :
              /\ emitted[k].updates = worker.updates
              /\ emitted[k].items = search_all(worker.search_text[1],
                                               emitted[k].ignore_case, 1)
        /\ Len(emitted) = worker.started

---------------------------------------------------------------------------
(* The tabs of the main window.                                            *)

\* the lexer class the suffix of a path selects
LexerOfSuffix(suffix) ==
    CASE suffix = ".py" -> "QsciLexerPython"
      [] suffix \in {".h", ".c", ".cpp", ".hpp"} -> "QsciLexerCPP"
      [] suffix = ".prs" -> "PPSCustomLexer"
      [] OTHER -> "TextCustomLexer"

\* the step is one run of a handler of the window
HandlerRan == op'.nr = op.nr + 1

(* C22: the lexer attached to the editor of every open tab is the one the  *)
(* suffix of the editor's current file_path selects.                       *)
C22_LexerMatchesSuffix ==
    \A i \in 1..Len(tabs) : tabs[i].lexer = LexerOfSuffix(tabs[i].file_path.suffix)

(* C23: the tooltips of the open tabs are pairwise distinct: no two tabs   *)
(* refer to the same file path.                                            *)
C23_DistinctPaths ==
    \A i, j \in 1..Len(tabs) : i # j => tabs[i].tooltip # tabs[j].tooltip

(* C24: a tab whose buffer the user changed after its load or its last     *)
(* successful Save has a label that starts with a star.                    *)
C24_ChangedIsStarred ==
    \A i \in 1..Len(tabs) : tabs[i].changed => StartsWith(tabs[i].label, "*")

(* C25: when the text of the current editor changes, the label of no       *)
(* other tab changes and the tab of the editor has a star afterwards.      *)
C25_StarOnOwnTab ==
    [][(HandlerRan /\ op'.name = "onTextChanged" /\ tabs[current].got_first_change_event)
       => /\ \A i \in 1..Len(tabs) : i # current => tabs'[i].label = tabs[i].label
          /\ StartsWith(tabs'[current].label, "*")]_vars

(* C26: whenever no handler is running, the Duplicate and Delete menu      *)
(* actions are enabled if and only if at least one tab is open.            *)
C26_MenuFollowsTabs ==
    pc = "idle" => /\ menu.dupe_file = (Len(tabs) > 0)
                   /\ menu.delete_file = (Len(tabs) > 0)

\* how a set_new_tab call ends that could not open the file; the call that
\* cannot read the text has added its tab when it shows the warning box
FailedExits == {"not_a_file", "binary", "raised", "warning_box"}

(* C27: a set_new_tab call that cannot open the file (not a file, binary,  *)
(* or its text cannot be read) leaves the tabs and the current tab as      *)
(* they were.                                                              *)
C27_FailedOpenKeepsTabs ==
    [][(HandlerRan /\ op'.name = "set_new_tab" /\ op'.exit \in FailedExits)
       => (tabs' = tabs /\ current' = current)]_vars

(* C28: next_new_file_path never returns the same path twice, never        *)
(* returns a path that exists when it is called, and int_gen only          *)
(* increases.                                                              *)
C28_FreshPaths ==
    /\ [](\A i, j \in 1..Len(issued) : i # j => issued[i] # issued[j])
    /\ [][/\ int_gen' >= int_gen
          /\ Len(issued') > Len(issued)
             => \A p \in DOMAIN disk : issued'[Len(issued')] # path_str(p)]_vars

(* C30 as stated: the flag is False whenever no set_new_tab call is        *)
(* executing, and a call made while it is True changes neither the tabs    *)
(* nor the flag.                                                           *)
C30_FalseWhenIdle ==
    /\ [](pc = "idle" => set_new_tab_busy = "False")
    /\ [][(HandlerRan /\ op'.exit = "busy")
          => (tabs' = tabs /\ current' = current /\ set_new_tab_busy' = set_new_tab_busy)]_vars

\* the handlers that are a set_new_tab call, and duplicate_file when it
\* got as far as calling it
SetNewTabCalled ==
    \/ op'.name \in {"set_new_tab", "new_file"}
    \/ op'.name = "duplicate_file" /\ op'.exit \notin {"cancelled", "read_raised"}

(* C30 amended: the flag is never True when no set_new_tab call is         *)
(* executing: it is None from construction until the first call and False  *)
(* after every exit path of a call, and it never becomes None again; a     *)
(* call made while it is True changes neither the tabs nor the flag.       *)
C30_NotSetWhenIdle ==
    /\ [](pc = "idle" => set_new_tab_busy \in {"None", "False"})
    /\ [][/\ (HandlerRan /\ SetNewTabCalled /\ pc' = "idle") => set_new_tab_busy' = "False"
          /\ set_new_tab_busy' = "None" => set_new_tab_busy = "None"
          /\ (HandlerRan /\ op'.exit = "busy")
             => (tabs' = tabs /\ current' = current /\ set_new_tab_busy' = "True")]_vars

\* a call has returned at once while another waits in its warning box
C30_Witness ==
    /\ op.name = "set_new_tab" /\ op.exit = "busy"
    /\ pc = "warning_box" /\ set_new_tab_busy = "True"
    /\ Len(tabs) = 1

---------------------------------------------------------------------------
(* normalize_line_endings.                                                 *)

RECURSIVE Breaks(_)
\* the number of line breaks of a text, CR LF counted as one
Breaks(s) ==
    IF s = "" THEN 0
    ELSE IF StartsWith(s, "\r\n") THEN 1 + Breaks(Slice(s, 2, Len(s)))
    ELSE IF Char(s, 1) \in {"\r", "\n"} THEN 1 + Breaks(Slice(s, 1, Len(s)))
    ELSE Breaks(Slice(s, 1, Len(s)))

\* the text holds only line terminators of the mode
OnlyTerminatorsOf(eol_mode, s) ==
    CASE eol_mode = "EolUnix" -> ~Contains(s, "\r")
      [] eol_mode = "EolMac"  -> ~Contains(s, "\n")
      [] eol_mode = "EolWindows" ->
            \A k \in 1..Len(s) :
                /\ Char(s, k) = "\n" => (k > 1 /\ Char(s, k - 1) = "\r")
                /\ Char(s, k) = "\r" => (k < Len(s) /\ Char(s, k + 1) = "\n")

(* C29: the result of normalize_line_endings holds only line terminators   *)
(* of the mode, has as many line breaks as the input (CR LF counted as     *)
(* one), and applying the function again in the same mode returns it       *)
(* unchanged.                                                              *)
C29_Normalized ==
    normalized # <<>>
    => LET r == normalized[1]
       IN  /\ OnlyTerminatorsOf(r.eol_mode, r.out)
           /\ Breaks(r.out) = Breaks(r.input)
           /\ r.times = 2 => r.out = r.input

\* a text with a lone CR and a CR LF, normalized twice for Windows
C29_Witness ==
    /\ normalized # <<>> /\ normalized[1].times = 2
    /\ normalized[1].eol_mode = "EolWindows"
    /\ text = "a\r\r\n"
    /\ normalized[1].out = "a\r\n\r\n"

===========================================================================
